---- MODULE Spec2Model ----
(***************************************************************************)
(* Account and session management of routes/users.js (Express router       *)
(* mounted on /users by server.js): registration, email verification,      *)
(* login, logout, the role-gated dashboards and the two admin actions.     *)
(*                                                                         *)
(* Each async handler is cut at its awaits; requests of other clients      *)
(* interleave between the steps.  The store operations (findOne,           *)
(* insertOne, updateOne) are atomic on one document.  A step that ends in  *)
(* a findOne takes the snapshot the handler continues with, and the tests  *)
(* that read nothing but that snapshot are answered in the same step; a    *)
(* step that issues insertOne or updateOne applies it, and the answer that *)
(* follows it is sent in the same step.  The clock is read in the step of  *)
(* the block that calls new Date().                                        *)
(*                                                                         *)
(* Spec is the whole router.  SpecLifecycle and SpecSessions are the same  *)
(* handlers under two environments, which restrict only the requests that  *)
(* clients send.                                                           *)
(*                                                                         *)
(* JavaScript strings that the code inspects (the role) are sequences of   *)
(* character codes; texts that are only passed along are TLA+ strings.     *)
(* Timestamps are milliseconds.  The profile fields firstName and lastName *)
(* are copied around and never read, and are left out of the records.      *)
(***************************************************************************)
EXTENDS Integers, Sequences, FiniteSets, TLC

\* ---------------------------------------------------------------- bounds
MaxUsers == 2        \* accounts the store may hold
MaxInFlight == 2     \* async handlers suspended at an await at one time
MaxTicks == 2        \* clock advances, each of one token lifetime
MaxSessions == 1     \* browser sessions

\* ------------------------------------------------------- program constants
saltRounds == 12
TokenLifetime == 3600000

\* ------------------------------------------------------------ JS values
\* "customer", "employee", "admin", "Admin" as character codes
customer == <<99, 117, 115, 116, 111, 109, 101, 114>>
employee == <<101, 109, 112, 108, 111, 121, 101, 101>>
admin == <<97, 100, 109, 105, 110>>
AdminCapital == <<65, 100, 109, 105, 110>>
\* null: what a missing newRole is stored as; it is no string
JsNull == <<-1>>

IsString(v) == \A i \in 1..Len(v) : v[i] >= 0

\* String.prototype.toLowerCase on the ASCII range
toLowerCase(s) == [i \in 1..Len(s) |-> IF s[i] \in 65..90 THEN s[i] + 32 ELSE s[i]]

\* req.session.user when no principal is bound; a findOne that matched nothing
Undefined == [type |-> "undefined"]

\* bcrypt.hash(password, saltRounds) and bcrypt.compare(password, hash)
bcryptHash(password) == <<"$2b$", saltRounds, password>>
bcryptCompare(password, hash) == hash = bcryptHash(password)

\* ------------------------------------------------------------ input sets
Emails == {"a@x.com", "b@x.com"}
RegisterPasswords == {"pw"}
LoginPasswords == {"pw", "bad"}
RoleInputs == {customer, employee, admin, AdminCapital, JsNull}
Sessions == 1..MaxSessions
Handlers == 1..MaxInFlight
\* 0 is a link that was never issued
TokenInputs == 0..MaxUsers
\* 0 is a userId that new ObjectId() rejects; an id above Len(users) matches nothing
UserIdInputs == 0..MaxUsers

VARIABLES
  users,      \* the users collection: sequence of account documents, _id = index
  session,    \* session store: session id -> req.session.user
  reqs,       \* handler slot -> the suspended handler's locals
  now,        \* the clock, new Date() / Date.now()
  res         \* the exchange the last step completed: the request and the
              \* response sent to it; NoResponse when the step sent none

vars == <<users, session, reqs, now, res>>

Idle == [op |-> "idle"]
NoResponse == [route |-> "none"]

\* req: the route, the session the request belongs to (0 where the handler
\* never touches req.session) and req.body / req.params
Request(route, sid, params) == [route |-> route, sid |-> sid, params |-> params]
NoParams == <<>>

\* res.send / res.status().send / res.render / res.redirect / res.json
Response(req, status, kind, body, currentUser) ==
  [route |-> req.route, sid |-> req.sid, req |-> req.params, status |-> status,
   kind |-> kind, body |-> body, currentUser |-> currentUser]

Send(req, body) == Response(req, 200, "send", body, Undefined)
Redirect(req, location) == Response(req, 302, "redirect", location, Undefined)
Render(req, view, currentUser) == Response(req, 200, "render", view, currentUser)
Json(req, success, message) ==
  Response(req, 200, "json", [success |-> success, message |-> message], Undefined)
AccessDenied(req) == Response(req, 403, "send", "Access denied.", Undefined)
\* server.js error handler: a handler that throws synchronously
ServerError(req) == Response(req, 500, "render", "500", Undefined)

\* ------------------------------------------------------------ the store
HasField(doc, f) == f \in DOMAIN doc

\* faulty variant: a filter that matches no document
findByEmailNoMatch(email) == {}

\* users.findOne({ email }): the documents the filter matches
findByEmail(email) == {i \in 1..Len(users) : users[i].email = email}

\* users.findOne({ verificationToken })
findByToken(token) ==
  {i \in 1..Len(users) : HasField(users[i], "verificationToken")
                         /\ users[i].verificationToken = token}

\* users.findOne({ _id })
findById(id) == {i \in 1..Len(users) : i = id}

\* $set
SetFields(doc, upd) ==
  [f \in DOMAIN doc \cup DOMAIN upd |-> IF f \in DOMAIN upd THEN upd[f] ELSE doc[f]]

\* $unset
UnsetFields(doc, fields) == [f \in DOMAIN doc \ fields |-> doc[f]]

\* faulty variant: the expiry set to the creation time, the hour forgotten
newUserNoLifetime(id, email, password, token, t) ==
  [userId |-> id, email |-> email, passwordHash |-> bcryptHash(password),
   role |-> customer, accountStatus |-> "active", isEmailVerified |-> FALSE,
   verificationToken |-> token, tokenExpiry |-> t,
   createdAt |-> t, updatedAt |-> t]

\* the document POST /register builds
newUser(id, email, password, token, t) ==
  [userId |-> id, email |-> email, passwordHash |-> bcryptHash(password),
   role |-> customer, accountStatus |-> "active", isEmailVerified |-> FALSE,
   verificationToken |-> token, tokenExpiry |-> t + TokenLifetime,
   createdAt |-> t, updatedAt |-> t]

\* uuidv4(): a value no earlier call returned
uuidv4 == Len(users) + 1

\* a new request is taken by the first free handler
FreeHandler(r) == reqs[r] = Idle /\ \A q \in Handlers : q < r => reqs[q] # Idle

\* handlers that passed the email check and have not inserted yet
PendingInserts == Cardinality({r \in Handlers : reqs[r].op = "register" /\ reqs[r].pc = "insertOne"})

Init ==
  /\ users = <<>>
  /\ session = [s \in Sessions |-> Undefined]
  /\ reqs = [r \in Handlers |-> Idle]
  /\ now = 0
  /\ res = NoResponse

\* an update document { $set: set, $unset: unset } applied to a document
applyUpdate(doc, update) == UnsetFields(SetFields(doc, update.set), update.unset)

\* updateOne(filter, update): the first document the filter matches, if any
updateOne(matches, update) ==
  IF matches = {}
    THEN users
    ELSE LET i == CHOOSE k \in matches : \A j \in matches : k <= j
         IN [users EXCEPT ![i] = applyUpdate(users[i], update)]

\* ---------------------------------------------------------- POST /register
\* (the second conjunct keeps the store within MaxUsers documents)
RegisterFindOne(r, email, password) ==
  /\ FreeHandler(r)
  /\ Len(users) + PendingInserts < MaxUsers
  /\ IF findByEmail(email) # {}
       THEN /\ res' = Send(Request("register", 0, [email |-> email, password |-> password]),
                             "User already exists with this email.")
            /\ UNCHANGED reqs
       ELSE /\ reqs' = [reqs EXCEPT ![r] = [op |-> "register", pc |-> "insertOne",
                                            email |-> email, password |-> password]]
            /\ res' = NoResponse
  /\ UNCHANGED <<users, session, now>>

RegisterInsertOne(r) ==
  /\ reqs[r].op = "register" /\ reqs[r].pc = "insertOne"
  /\ LET token == uuidv4
     IN /\ users' = Append(users, newUser(uuidv4, reqs[r].email, reqs[r].password, token, now))
        /\ reqs' = [reqs EXCEPT ![r] = [op |-> "register", pc |-> "send",
                                        email |-> reqs[r].email,
                                        password |-> reqs[r].password, token |-> token]]
  /\ res' = NoResponse
  /\ UNCHANGED <<session, now>>

\* faulty variant: a failed dispatch deletes the account that was inserted
RegisterSendRollback(r, delivered) ==
  /\ reqs[r].op = "register" /\ reqs[r].pc = "send"
  /\ LET req == Request("register", 0, [email |-> reqs[r].email, password |-> reqs[r].password])
     IN IF delivered
          THEN /\ res' = Send(req, "Registration Successful!")
               /\ UNCHANGED users
          ELSE /\ res' = Send(req, "Something went wrong.")
               /\ users' = [i \in 1..(Len(users) - 1) |->
                              IF i < reqs[r].token THEN users[i] ELSE users[i + 1]]
  /\ reqs' = [reqs EXCEPT ![r] = Idle]
  /\ UNCHANGED <<session, now>>

RegisterSend(r, delivered) ==
  /\ reqs[r].op = "register" /\ reqs[r].pc = "send"
  /\ LET req == Request("register", 0, [email |-> reqs[r].email, password |-> reqs[r].password])
     IN res' = IF delivered
                 THEN Send(req, "Registration Successful!")
                 ELSE Send(req, "Something went wrong.")
  /\ reqs' = [reqs EXCEPT ![r] = Idle]
  /\ UNCHANGED <<users, session, now>>

\* ------------------------------------------------------ GET /verify/:token
VerifyFindOne(r, token) ==
  /\ FreeHandler(r)
  /\ IF findByToken(token) = {}
       THEN /\ res' = Send(Request("verify", 0, [token |-> token]),
                             "Invalid or expired verification link.")
            /\ UNCHANGED reqs
       ELSE /\ \E i \in findByToken(token) :
                 reqs' = [reqs EXCEPT ![r] = [op |-> "verify", pc |-> "updateOne",
                                              token |-> token,
                                              tokenExpiry |-> users[i].tokenExpiry]]
            /\ res' = NoResponse
  /\ UNCHANGED <<users, session, now>>

\* faulty variant: the $unset forgotten
verifyUpdateNoUnset == [set |-> [isEmailVerified |-> TRUE], unset |-> {}]

\* faulty variant: only the token unset, its expiry left behind
verifyUpdateKeepsExpiry ==
  [set |-> [isEmailVerified |-> TRUE], unset |-> {"verificationToken"}]

\* { $set: { isEmailVerified: true }, $unset: { verificationToken: "", tokenExpiry: "" } }
verifyUpdate ==
  [set |-> [isEmailVerified |-> TRUE], unset |-> {"verificationToken", "tokenExpiry"}]

\* faulty variant: the comparison turned around
tokenExpiredReversed(tokenExpiry, t) == t < tokenExpiry

\* user.tokenExpiry < new Date()
tokenExpired(tokenExpiry, t) == tokenExpiry < t

VerifyUpdateOne(r) ==
  /\ reqs[r].op = "verify" /\ reqs[r].pc = "updateOne"
  /\ IF tokenExpired(reqs[r].tokenExpiry, now)
       THEN /\ res' = Send(Request("verify", 0, [token |-> reqs[r].token]),
                             "Verification link expired.")
            /\ UNCHANGED users
       ELSE /\ users' = updateOne(findByToken(reqs[r].token), verifyUpdate)
            /\ res' = Send(Request("verify", 0, [token |-> reqs[r].token]), "Email Verified!")
  /\ reqs' = [reqs EXCEPT ![r] = Idle]
  /\ UNCHANGED <<session, now>>

\* ------------------------------------------------------------- POST /login
\* the snapshot bound to req.session.user
principal(user) ==
  [userId |-> user.userId, email |-> user.email, role |-> user.role,
   isEmailVerified |-> user.isEmailVerified]

\* faulty variant: the status check placed before the verification check
loginRefusalStatusFirst(user) ==
  IF user.accountStatus # "active"
    THEN "Account is not active."
    ELSE IF ~user.isEmailVerified
      THEN "Please verify your email first."
      ELSE ""

\* the two checks on the document found, before the password is compared:
\* the message of the first that fails, "" when both pass
loginRefusal(user) ==
  IF ~user.isEmailVerified
    THEN "Please verify your email first."
    ELSE IF user.accountStatus # "active"
      THEN "Account is not active."
      ELSE ""

LoginFindOne(r, s, email, password) ==
  /\ FreeHandler(r)
  /\ LET req == Request("login", s, [email |-> email, password |-> password])
     IN IF findByEmail(email) = {}
          THEN /\ res' = Send(req, "User not found.")
               /\ UNCHANGED reqs
          ELSE \E i \in findByEmail(email) :
                 LET user == users[i]
                 IN IF loginRefusal(user) # ""
                      THEN /\ res' = Send(req, loginRefusal(user))
                           /\ UNCHANGED reqs
                      ELSE /\ reqs' = [reqs EXCEPT ![r] =
                                         [op |-> "login", pc |-> "compare", sid |-> s,
                                          email |-> email, password |-> password,
                                          passwordHash |-> user.passwordHash,
                                          user |-> principal(user)]]
                           /\ res' = NoResponse
  /\ UNCHANGED <<users, session, now>>

\* faulty variant: the employee branch left out of the redirect
loginAnswerNoEmployee(req, user) ==
  IF ~IsString(user.role)
    THEN Send(req, "Something went wrong.")
    ELSE IF toLowerCase(user.role) = admin
      THEN Redirect(req, "/users/adminDashboard")
      ELSE Redirect(req, "/users/dashboard")

\* "Redirect based on role"; user.role.toLowerCase() throws when role is no
\* string, and the catch block answers
loginAnswer(req, user) ==
  IF ~IsString(user.role)
    THEN Send(req, "Something went wrong.")
    ELSE IF toLowerCase(user.role) = admin
      THEN Redirect(req, "/users/adminDashboard")
      ELSE IF toLowerCase(user.role) = employee
        THEN Redirect(req, "/users/emp-dashboard")
        ELSE Redirect(req, "/users/dashboard")

LoginCompare(r) ==
  /\ reqs[r].op = "login" /\ reqs[r].pc = "compare"
  /\ LET req == Request("login", reqs[r].sid,
                        [email |-> reqs[r].email, password |-> reqs[r].password])
     IN IF ~bcryptCompare(reqs[r].password, reqs[r].passwordHash)
          THEN /\ res' = Send(req, "Invalid password.")
               /\ UNCHANGED session
          ELSE /\ session' = [session EXCEPT ![reqs[r].sid] = reqs[r].user]
               /\ res' = loginAnswer(req, reqs[r].user)
  /\ reqs' = [reqs EXCEPT ![r] = Idle]
  /\ UNCHANGED <<users, now>>

\* ------------------------------------------------------------- GET /logout
\* err: the session store could not remove the entry
Logout(s, err) ==
  /\ IF err
       THEN /\ res' = Send(Request("logout", s, NoParams), "Something went wrong during logout.")
            /\ UNCHANGED session
       ELSE /\ session' = [session EXCEPT ![s] = Undefined]
            /\ res' = Redirect(Request("logout", s, NoParams), "/users/login")
  /\ UNCHANGED <<users, reqs, now>>

\* -------------------------------------------------------------- dashboards
Dashboard(s) ==
  /\ res' = Render(Request("dashboard", s, NoParams), "dashboard", session[s])
  /\ UNCHANGED <<users, session, reqs, now>>

\* faulty variant: the role compared as stored, without toLowerCase()
roleGateCaseSensitive(route, s, required, view) ==
  LET req == Request(route, s, NoParams)
  IN IF session[s] = Undefined
       THEN AccessDenied(req)
       ELSE IF ~IsString(session[s].role)
         THEN ServerError(req)
         ELSE IF session[s].role # required
           THEN AccessDenied(req)
           ELSE Render(req, view, session[s])

\* if (!req.session.user || req.session.user.role.toLowerCase() !== required)
\*   return res.status(403).send("Access denied.");
\* res.render(view, { currentUser: req.session.user })
roleGate(route, s, required, view) ==
  LET req == Request(route, s, NoParams)
  IN IF session[s] = Undefined
       THEN AccessDenied(req)
       ELSE IF ~IsString(session[s].role)
         THEN ServerError(req)
         ELSE IF toLowerCase(session[s].role) # required
           THEN AccessDenied(req)
           ELSE Render(req, view, session[s])

EmpDashboard(s) ==
  /\ res' = roleGate("emp-dashboard", s, employee, "emp-dashboard")
  /\ UNCHANGED <<users, session, reqs, now>>

AdminDashboard(s) ==
  /\ res' = roleGate("adminDashboard", s, admin, "adminDashboard")
  /\ UNCHANGED <<users, session, reqs, now>>

Reports(s) ==
  /\ res' = roleGate("reports", s, admin, "reports")
  /\ UNCHANGED <<users, session, reqs, now>>

\* ----------------------------------------------------------- admin actions
\* faulty variant: the role change also sets the account active
roleUpdateReactivates(newRole, t) ==
  [set |-> [role |-> newRole, accountStatus |-> "active", updatedAt |-> t], unset |-> {}]

\* { $set: { role: newRole, updatedAt: new Date() } }
roleUpdate(newRole, t) == [set |-> [role |-> newRole, updatedAt |-> t], unset |-> {}]

\* faulty variant: the new role also written into the live sessions of the account
UpdateRoleRefreshesSessions(s, userId, newRole) ==
  /\ LET req == Request("update-role", s, [userId |-> userId, newRole |-> newRole])
     IN IF userId = 0
          THEN /\ res' = Json(req, FALSE, <<"Error updating role">>)
               /\ UNCHANGED <<users, session>>
          ELSE /\ users' = updateOne(findById(userId), roleUpdate(newRole, now))
               /\ session' = [t \in Sessions |->
                                IF session[t] # Undefined /\ session[t].userId = userId
                                  THEN [session[t] EXCEPT !.role = newRole]
                                  ELSE session[t]]
               /\ res' = Json(req, TRUE, <<"Role updated to ", newRole>>)
  /\ UNCHANGED <<reqs, now>>

\* userId = 0: new ObjectId(userId) throws and the catch block answers
UpdateRole(s, userId, newRole) ==
  /\ LET req == Request("update-role", s, [userId |-> userId, newRole |-> newRole])
     IN IF userId = 0
          THEN /\ res' = Json(req, FALSE, <<"Error updating role">>)
               /\ UNCHANGED users
          ELSE /\ users' = updateOne(findById(userId), roleUpdate(newRole, now))
               /\ res' = Json(req, TRUE, <<"Role updated to ", newRole>>)
  /\ UNCHANGED <<session, reqs, now>>

\* { $set: { accountStatus: 'resigned', updatedAt: new Date() } }
archiveUpdate(t) == [set |-> [accountStatus |-> "resigned", updatedAt |-> t], unset |-> {}]

ArchiveEmployee(s, userId) ==
  /\ LET req == Request("archive-employee", s, [userId |-> userId])
     IN IF userId = 0
          THEN /\ res' = Json(req, FALSE, <<"Error archiving employee">>)
               /\ UNCHANGED users
          ELSE /\ users' = updateOne(findById(userId), archiveUpdate(now))
               /\ res' = Json(req, TRUE, <<"Employee marked as Resigned">>)
  /\ UNCHANGED <<session, reqs, now>>

\* ------------------------------------------------------------------ clock
Tick ==
  /\ now < MaxTicks * TokenLifetime
  /\ now' = now + TokenLifetime
  /\ res' = NoResponse
  /\ UNCHANGED <<users, session, reqs>>

Next ==
  \/ \E r \in Handlers, e \in Emails, p \in RegisterPasswords : RegisterFindOne(r, e, p)
  \/ \E r \in Handlers : RegisterInsertOne(r)
  \/ \E r \in Handlers, d \in BOOLEAN : RegisterSend(r, d)
  \/ \E r \in Handlers, t \in TokenInputs : VerifyFindOne(r, t)
  \/ \E r \in Handlers : VerifyUpdateOne(r)
  \/ \E r \in Handlers, s \in Sessions, e \in Emails, p \in LoginPasswords : LoginFindOne(r, s, e, p)
  \/ \E r \in Handlers : LoginCompare(r)
  \/ \E s \in Sessions, err \in BOOLEAN : Logout(s, err)
  \/ \E s \in Sessions : Dashboard(s)
  \/ \E s \in Sessions : EmpDashboard(s)
  \/ \E s \in Sessions : AdminDashboard(s)
  \/ \E s \in Sessions : Reports(s)
  \/ \E s \in Sessions, id \in UserIdInputs, role \in RoleInputs : UpdateRole(s, id, role)
  \/ \E s \in Sessions, id \in UserIdInputs : ArchiveEmployee(s, id)
  \/ Tick

Spec == Init /\ [][Next]_vars

\* ------------------------------------------------------------ environments
\* The handlers are those of Next; an environment only restricts which
\* requests the clients send.

\* Account lifecycle under concurrency: clients register, follow verification
\* links and post the two admin actions (promoting to employee), with up to
\* MaxInFlight handlers suspended at once; nobody logs in, so every session is
\* anonymous and the admin actions are posted from session 1.
NextLifecycle ==
  \/ \E r \in Handlers, e \in Emails, p \in RegisterPasswords : RegisterFindOne(r, e, p)
  \/ \E r \in Handlers : RegisterInsertOne(r)
  \/ \E r \in Handlers, d \in BOOLEAN : RegisterSend(r, d)
  \/ \E r \in Handlers, t \in TokenInputs : VerifyFindOne(r, t)
  \/ \E r \in Handlers : VerifyUpdateOne(r)
  \/ \E id \in UserIdInputs : UpdateRole(1, id, employee)
  \/ \E id \in UserIdInputs : ArchiveEmployee(1, id)
  \/ Tick

SpecLifecycle == Init /\ [][NextLifecycle]_vars

\* One account, requests one at a time: every request concerns the address
\* a@x.com and is sent when the answer to the previous one has arrived, so the
\* store holds at most the account with _id 1 and token 1.
NoneInFlight == \A r \in Handlers : reqs[r] = Idle
\* a link never issued, and the link mailed to a@x.com
OneAccountTokens == {0, 1}
\* an id ObjectId() rejects, the id of the account, an id of no account
OneAccountUserIds == {0, 1, 2}

NextSessions ==
  \/ \E r \in Handlers, p \in RegisterPasswords :
        NoneInFlight /\ RegisterFindOne(r, "a@x.com", p)
  \/ \E r \in Handlers : RegisterInsertOne(r)
  \/ \E r \in Handlers, d \in BOOLEAN : RegisterSend(r, d)
  \/ \E r \in Handlers, t \in OneAccountTokens : NoneInFlight /\ VerifyFindOne(r, t)
  \/ \E r \in Handlers : VerifyUpdateOne(r)
  \/ \E r \in Handlers, s \in Sessions, p \in LoginPasswords :
        NoneInFlight /\ LoginFindOne(r, s, "a@x.com", p)
  \/ \E r \in Handlers : LoginCompare(r)
  \/ \E s \in Sessions, err \in BOOLEAN : NoneInFlight /\ Logout(s, err)
  \/ \E s \in Sessions : NoneInFlight /\ Dashboard(s)
  \/ \E s \in Sessions : NoneInFlight /\ EmpDashboard(s)
  \/ \E s \in Sessions : NoneInFlight /\ AdminDashboard(s)
  \/ \E s \in Sessions : NoneInFlight /\ Reports(s)
  \/ \E s \in Sessions, id \in OneAccountUserIds, role \in RoleInputs :
        NoneInFlight /\ UpdateRole(s, id, role)
  \/ \E s \in Sessions, id \in OneAccountUserIds : NoneInFlight /\ ArchiveEmployee(s, id)
  \/ Tick

SpecSessions == Init /\ [][NextSessions]_vars

\* =================================================================== claims
\* The role a stored string names, read case-insensitively.
RoleName(role) ==
  IF role \in {admin, AdminCapital} THEN "admin"
  ELSE IF role = employee THEN "employee"
  ELSE IF role = customer THEN "customer"
  ELSE "other"

\* the session's principal has the given role
HasRole(s, name) == session[s] # Undefined /\ RoleName(session[s].role) = name

\* The n-th account inserted carries the n-th token drawn: token t was issued
\* to account t, and it is used up once that account is verified.
Consumed(t) == t \in 1..Len(users) /\ users[t].isEmailVerified

\* C1: in every reachable state, under any interleaving of concurrently
\* handled Register requests, no two accounts in the store have the same email.
C1_EmailUnique ==
  \A i, j \in 1..Len(users) : users[i].email = users[j].email => i = j

\* C2: an UpdateRole or ArchiveEmployee request changes no account's role or
\* accountStatus unless the session making it is bound to a principal whose
\* role is admin.
C2_AdminOnlyMutation ==
  [][(res'.route \in {"update-role", "archive-employee"} /\ ~HasRole(res'.sid, "admin"))
       => \A i \in 1..Len(users) : /\ users'[i].role = users[i].role
                                   /\ users'[i].accountStatus = users[i].accountStatus]_vars

\* C3: a request to GET /users/dashboard or GET /users/logout made with no
\* principal bound to the session gets the access-denied response, and no view
\* is rendered.
C3_SessionRoutesDenyAnonymous ==
  [][(res'.route \in {"dashboard", "logout"} /\ session[res'.sid] = Undefined)
       => res' = AccessDenied(Request(res'.route, res'.sid, NoParams))]_vars

\* the role-gated routes and the role each requires
GatedRoutes == {"emp-dashboard", "adminDashboard", "reports"}
RequiredRole(route) == IF route = "emp-dashboard" THEN "employee" ELSE "admin"

\* C4: on a role-gated route, for a session principal whose role is customer,
\* employee or admin in any letter case, the guard renders the view if and only
\* if the role is the route's required role, and otherwise answers 403
\* "Access denied.".
C4_GuardAllowsIffRoleMatches ==
  (/\ res.route \in GatedRoutes
   /\ session[res.sid] # Undefined
   /\ RoleName(session[res.sid].role) \in {"customer", "employee", "admin"})
    => IF RoleName(session[res.sid].role) = RequiredRole(res.route)
         THEN res.status = 200 /\ res.kind = "render" /\ res.body = res.route
         ELSE res.status = 403 /\ res.kind = "send" /\ res.body = "Access denied."

\* an admin whose role is stored as "Admin" is let into the admin dashboard
C4_Witness ==
  /\ res.route = "adminDashboard"
  /\ session[res.sid] # Undefined
  /\ session[res.sid].role = AdminCapital
  /\ res.kind = "render"

\* the four failure answers of Login, and the one the claimed order of checks
\* gives for a request ("none" when all four checks pass)
LoginFailures ==
  {"User not found.", "Please verify your email first.", "Account is not active.",
   "Invalid password."}

FirstFailedCheck(email, password) ==
  IF findByEmail(email) = {}
    THEN "User not found."
    ELSE LET u == users[CHOOSE i \in findByEmail(email) : TRUE]
         IN IF ~u.isEmailVerified THEN "Please verify your email first."
            ELSE IF u.accountStatus # "active" THEN "Account is not active."
            ELSE IF u.passwordHash # bcryptHash(password) THEN "Invalid password."
            ELSE "none"

\* C5: Login checks, in this order, that the account exists, that it is
\* verified, that it is active and that the password matches, and answers with
\* the failure of the first check that fails; an unverified account gets
\* "Please verify your email first." whatever the password.  (Stated on the
\* state the answer is sent in: in SpecSessions no other request runs between
\* the lookup and the answer, so the account is the one that was looked up.)
C5_LoginChecksInOrder ==
  res.route = "login"
    => IF FirstFailedCheck(res.req.email, res.req.password) = "none"
         THEN res.body \notin LoginFailures
         ELSE /\ res.body = FirstFailedCheck(res.req.email, res.req.password)
              /\ res.kind = "send"

\* a login with the right password is refused because the account is unverified
C5_Witness ==
  /\ res.route = "login"
  /\ res.body = "Please verify your email first."
  /\ \E i \in findByEmail(res.req.email) :
       /\ ~users[i].isEmailVerified
       /\ users[i].passwordHash = bcryptHash(res.req.password)

\* C6: Login with the email of an account whose accountStatus is resigned
\* fails with "Account is not active.", also with the right password, and binds
\* no principal to the session.
C6_ResignedLoginInactive ==
  [][(/\ res'.route = "login"
      /\ \E i \in findByEmail(res'.req.email) : users[i].accountStatus = "resigned")
       => res'.body = "Account is not active." /\ session' = session]_vars

\* C7: a VerifyEmail whose token matches an account and is not expired sets
\* isEmailVerified and removes verificationToken and tokenExpiry in one update
\* that changes nothing else; a VerifyEmail with the same token that starts
\* after that update gets the invalid-link answer and changes nothing.
C7_VerifyConsumesToken ==
  [][/\ \A r \in Handlers :
          (/\ VerifyUpdateOne(r)
           /\ ~(reqs[r].tokenExpiry < now))
            => \A i \in findByToken(reqs[r].token) :
                 /\ users'[i].isEmailVerified
                 /\ ~HasField(users'[i], "verificationToken")
                 /\ ~HasField(users'[i], "tokenExpiry")
                 /\ DOMAIN users'[i] = DOMAIN users[i] \ {"verificationToken", "tokenExpiry"}
                 /\ \A f \in DOMAIN users'[i] \ {"isEmailVerified"} : users'[i][f] = users[i][f]
                 /\ \A j \in 1..Len(users) : j # i => users'[j] = users[j]
     /\ \A r \in Handlers, t \in TokenInputs :
          (VerifyFindOne(r, t) /\ Consumed(t))
            => /\ res' = Send(Request("verify", 0, [token |-> t]),
                              "Invalid or expired verification link.")
               /\ users' = users]_vars

\* a link that was already used to verify its account is answered as invalid
C7_Witness ==
  /\ res.route = "verify"
  /\ res.body = "Invalid or expired verification link."
  /\ Consumed(res.req.token)

\* C8: a VerifyEmail whose token is held by an account with tokenExpiry in the
\* past answers "Verification link expired." and leaves the account as it was:
\* unverified, with verificationToken and tokenExpiry.
C8_ExpiredTokenRejected ==
  [][\A r \in Handlers :
       (/\ VerifyUpdateOne(r)
        /\ \E i \in findByToken(reqs[r].token) : users[i].tokenExpiry < now)
         => /\ res'.body = "Verification link expired."
            /\ users' = users
            /\ \A i \in findByToken(reqs[r].token) :
                 /\ ~users'[i].isEmailVerified
                 /\ users'[i].verificationToken = reqs[r].token
                 /\ HasField(users'[i], "tokenExpiry")]_vars

\* the expired answer, with the account still unverified and holding the token
C8_Witness ==
  /\ res.route = "verify"
  /\ res.body = "Verification link expired."
  /\ \E i \in findByToken(res.req.token) :
       ~users[i].isEmailVerified /\ users[i].tokenExpiry < now

\* C9: in every reachable state an unverified account carries a
\* verificationToken and a tokenExpiry, and a verified account carries neither.
C9_TokenFieldsIffUnverified ==
  \A i \in 1..Len(users) :
    IF users[i].isEmailVerified
      THEN ~HasField(users[i], "verificationToken") /\ ~HasField(users[i], "tokenExpiry")
      ELSE HasField(users[i], "verificationToken") /\ HasField(users[i], "tokenExpiry")

\* a verified account beside an unverified one
C9_Witness ==
  \E i, j \in 1..Len(users) : users[i].isEmailVerified /\ ~users[j].isEmailVerified

\* C10: the account Register inserts has role customer, accountStatus active,
\* isEmailVerified false and a verification token whose tokenExpiry is one hour
\* after the creation time, so the token is not expired when it is inserted.
C10_NewAccountShape ==
  [][Len(users') # Len(users)
       => /\ Len(users') = Len(users) + 1
          /\ \A i \in 1..Len(users) : users'[i] = users[i]
          /\ LET u == users'[Len(users')]
             IN /\ u.role = customer
                /\ u.accountStatus = "active"
                /\ u.isEmailVerified = FALSE
                /\ HasField(u, "verificationToken")
                /\ u.createdAt = now
                /\ u.tokenExpiry = u.createdAt + 3600000
                /\ ~(u.tokenExpiry < now')]_vars

\* the state right after an insert, the handler waiting for the email dispatch
C10_Witness ==
  \E r \in Handlers :
    /\ reqs[r].op = "register" /\ reqs[r].pc = "send"
    /\ res = NoResponse
    /\ HasField(users[reqs[r].token], "verificationToken")
    /\ users[reqs[r].token].verificationToken = reqs[r].token
    /\ users[reqs[r].token].tokenExpiry = now + 3600000

\* C11: a Register request whose email lookup finds an account with that email
\* is answered "User already exists with this email."; no account is inserted,
\* no handler goes on to the insert or to the email dispatch, and the existing
\* account is left as it was.
C11_DuplicateEmailRejected ==
  [][\A r \in Handlers, e \in Emails, p \in RegisterPasswords :
       (/\ RegisterFindOne(r, e, p)
        /\ \E i \in 1..Len(users) : users[i].email = e)
         => /\ res' = Send(Request("register", 0, [email |-> e, password |-> p]),
                           "User already exists with this email.")
            /\ users' = users
            /\ reqs' = reqs]_vars

\* the rejection, with the account of that address in the store and no
\* registration under way for it
C11_Witness ==
  /\ res.route = "register"
  /\ res.body = "User already exists with this email."
  /\ \E i \in 1..Len(users) : users[i].email = res.req.email
  /\ \A r \in Handlers : reqs[r].op = "register" => reqs[r].email # res.req.email

\* C12: in every reachable state, after any sequence of Register and
\* UpdateRole operations, every account's role is one of customer, employee,
\* admin.
C12_RoleInEnumeration ==
  \A i \in 1..Len(users) : users[i].role \in {customer, employee, admin}

\* the dashboard of a role, the role read case-insensitively as the code does
DashboardOf(role) ==
  IF RoleName(role) = "admin" THEN "/users/adminDashboard"
  ELSE IF RoleName(role) = "employee" THEN "/users/emp-dashboard"
  ELSE "/users/dashboard"

\* C13: after UpdateRole(account, r) has completed for a verified, active
\* account, the next successful Login for that account binds a principal whose
\* role is r and redirects to the dashboard of r.  In three parts: UpdateRole on
\* an account stores r as its role; the stored role changes in no other step;
\* and a Login that answers with a redirect has bound the principal of the
\* account with its stored role and redirects to that role's dashboard.
C13_LoginFollowsUpdatedRole ==
  [][/\ \A s \in Sessions, id \in OneAccountUserIds, role \in RoleInputs :
          (UpdateRole(s, id, role) /\ id \in 1..Len(users)) => users'[id].role = role
     /\ \A i \in 1..Len(users) :
          users'[i].role # users[i].role
            => /\ res'.route = "update-role"
               /\ res'.req.userId = i
               /\ res'.req.newRole = users'[i].role
     /\ (res'.route = "login" /\ res'.kind = "redirect")
          => \E i \in findByEmail(res'.req.email) :
               /\ users[i].isEmailVerified
               /\ users[i].accountStatus = "active"
               /\ session'[res'.sid] # Undefined
               /\ session'[res'.sid].userId = users[i].userId
               /\ session'[res'.sid].role = users[i].role
               /\ res'.body = DashboardOf(users[i].role)]_vars

\* a login sent to the employee dashboard: the account was registered as
\* customer, so an UpdateRole to employee has come before
C13_Witness ==
  /\ res.route = "login"
  /\ res.kind = "redirect"
  /\ res.body = "/users/emp-dashboard"
  /\ session[res.sid] # Undefined
  /\ session[res.sid].role = employee
  /\ \E i \in findByEmail(res.req.email) : users[i].role = employee

\* C14: when the dispatch of the verification email fails in Register after
\* the account was inserted, the insert is not rolled back: the store is left
\* as it is, the account stays in it, unverified and with its token and expiry,
\* and the request is answered "Something went wrong.".  (The account inserted
\* by the handler is the one that carries the token the handler drew; a
\* verification that ran in between only shows if the link could be known
\* before it was mailed, which TokenInputs allows, hence the second antecedent.)
C14_FailedDispatchKeepsAccount ==
  [][\A r \in Handlers :
       RegisterSend(r, FALSE)
         => /\ users' = users
            /\ res' = Send(Request("register", 0, [email |-> reqs[r].email,
                                                    password |-> reqs[r].password]),
                           "Something went wrong.")
            /\ reqs[r].token \in 1..Len(users')
            /\ users'[reqs[r].token].email = reqs[r].email
            /\ ~Consumed(reqs[r].token)
                 => /\ ~users'[reqs[r].token].isEmailVerified
                    /\ HasField(users'[reqs[r].token], "verificationToken")
                    /\ users'[reqs[r].token].verificationToken = reqs[r].token
                    /\ HasField(users'[reqs[r].token], "tokenExpiry")]_vars

\* the generic failure answered to a registration whose account is in the
\* store, unverified and holding a token
C14_Witness ==
  /\ res.route = "register"
  /\ res.body = "Something went wrong."
  /\ \E i \in findByEmail(res.req.email) :
       /\ ~users[i].isEmailVerified
       /\ HasField(users[i], "verificationToken")
       /\ users[i].passwordHash = bcryptHash(res.req.password)

\* C15: after a Logout whose session teardown succeeds, the session has no
\* principal, so every later request on it to a role-gated route is denied
\* until a new successful Login; when the store cannot remove the entry, Logout
\* answers with the generic failure and does not redirect.  In four parts: a
\* Logout that succeeds leaves the session without principal and redirects to
\* the login page; a session without principal gets one only from a Login that
\* succeeds, that is, answers with a redirect; a gated request on a session
\* without principal gets 403 "Access denied."; a Logout that fails answers
\* "Something went wrong during logout." and leaves the session as it was.
C15_LogoutEndsAccess ==
  [][/\ \A s \in Sessions :
          Logout(s, FALSE)
            => /\ session'[s] = Undefined
               /\ res' = Redirect(Request("logout", s, NoParams), "/users/login")
     /\ \A s \in Sessions :
          (session[s] = Undefined /\ session'[s] # Undefined)
            => res'.route = "login" /\ res'.sid = s /\ res'.kind = "redirect"
     /\ (res'.route \in GatedRoutes /\ session[res'.sid] = Undefined)
          => /\ res' = AccessDenied(Request(res'.route, res'.sid, NoParams))
             /\ session' = session
     /\ \A s \in Sessions :
          Logout(s, TRUE)
            => /\ res' = Send(Request("logout", s, NoParams),
                              "Something went wrong during logout.")
               /\ session' = session]_vars

\* the three states of the account state machine
AccountStates ==
  {<<FALSE, "active">>, <<TRUE, "active">>, <<TRUE, "resigned">>}

\* C16: every reachable account is in one of the three states (unverified,
\* active), (verified, active), (verified, resigned), so ArchiveEmployee never
\* produces an account that is unverified and resigned; and no step moves an
\* account from verified back to unverified or from resigned back to active.
C16_AccountStateMachine ==
  [][/\ \A i \in 1..Len(users') :
          <<users'[i].isEmailVerified, users'[i].accountStatus>> \in AccountStates
     /\ \A i \in 1..Len(users) :
          /\ users[i].isEmailVerified => users'[i].isEmailVerified
          /\ users[i].accountStatus = "resigned" => users'[i].accountStatus = "resigned"]_vars

\* C17: ArchiveEmployee and UpdateRole leave every live session unchanged: a
\* session bound to the account before the operation still holds the same
\* principal snapshot, with the role it had at login, and the guard decides
\* every gated route for every session after the operation as before it.
C17_AdminActionsKeepSessions ==
  [][res'.route \in {"update-role", "archive-employee"}
       => /\ session' = session
          /\ \A s \in Sessions :
               /\ roleGate("emp-dashboard", s, employee, "emp-dashboard")'
                    = roleGate("emp-dashboard", s, employee, "emp-dashboard")
               /\ roleGate("adminDashboard", s, admin, "adminDashboard")'
                    = roleGate("adminDashboard", s, admin, "adminDashboard")
               /\ roleGate("reports", s, admin, "reports")'
                    = roleGate("reports", s, admin, "reports")]_vars

\* an UpdateRole has changed the role of the account a live session is bound
\* to, and the session still carries the role of the login
C17_Witness ==
  /\ res.route = "update-role"
  /\ res.body.success
  /\ \E s \in Sessions :
       /\ session[s] # Undefined
       /\ session[s].userId = res.req.userId
       /\ session[s].role # users[res.req.userId].role
       /\ users[res.req.userId].role = res.req.newRole

\* the step leaves every document but the one with the given _id as it was,
\* and in that one every field outside the given set
ChangesOnly(id, fields) ==
  /\ Len(users') = Len(users)
  /\ \A i \in 1..Len(users) :
       /\ i # id => users'[i] = users[i]
       /\ DOMAIN users'[i] = DOMAIN users[i]
       /\ \A f \in DOMAIN users[i] \ fields : users'[i][f] = users[i][f]

\* C18: UpdateRole changes only the role and updatedAt of the targeted account
\* and leaves its isEmailVerified, accountStatus and token fields unchanged;
\* ArchiveEmployee changes only accountStatus and updatedAt and leaves role,
\* isEmailVerified and token fields unchanged; neither changes any other
\* account.
C18_AdminActionsFrame ==
  [][/\ res'.route = "update-role"
          => ChangesOnly(res'.req.userId, {"role", "updatedAt"})
     /\ res'.route = "archive-employee"
          => ChangesOnly(res'.req.userId, {"accountStatus", "updatedAt"})]_vars

\* an account promoted to employee and then archived at a later time, still
\* unverified and holding its token, beside a second account
C18_Witness ==
  /\ res.route = "archive-employee"
  /\ Len(users) = 2
  /\ res.req.userId = 1
  /\ users[1].role = employee
  /\ users[1].accountStatus = "resigned"
  /\ users[1].updatedAt = now /\ users[1].createdAt < now
  /\ HasField(users[1], "verificationToken")
  /\ users[2].accountStatus = "active"

\* C19: Login binds a principal to the session if and only if it answers with
\* a role redirect: a Login answered with a redirect has bound the principal of
\* the account to its session, and a Login answered with a failure message
\* (not found, not verified, not active, invalid password or the generic
\* "Something went wrong.") leaves every session's principal as it was.
C19_LoginBindsIffRedirect ==
  [][res'.route = "login"
       => IF res'.kind = "redirect"
            THEN /\ session'[res'.sid] # Undefined
                 /\ session'[res'.sid].email = res'.req.email
                 /\ \A s \in Sessions : s # res'.sid => session'[s] = session[s]
            ELSE session' = session]_vars

\* C20: a verification token is used once: under any interleaving of
\* concurrent VerifyEmail requests carrying the same token, at most one of them
\* reports a successful verification, and the account ends verified with both
\* token fields cleared.  A VerifyEmail that answers "Email Verified!" for a
\* token that was used up before its answer is a second success.
C20_TokenUsedOnce ==
  [][(res'.route = "verify" /\ res'.body = "Email Verified!")
       => /\ ~Consumed(res'.req.token)
          /\ users'[res'.req.token].isEmailVerified
          /\ ~HasField(users'[res'.req.token], "verificationToken")
          /\ ~HasField(users'[res'.req.token], "tokenExpiry")]_vars
====
